---- MODULE Spec2Model ----
(***************************************************************************)
(* aleph-tui: the status dashboard's application state, its key handling   *)
(* (update.rs: update), its throttled fetch (update.rs: fetch) and its     *)
(* frame rendering (ui.rs: render), as one state machine.                  *)
(*                                                                         *)
(* Strings are TLA+ strings; an Option<T> is a sequence of length 0 (None) *)
(* or 1 (Some).  Row and result indices are 0-based as in the source.      *)
(* Time is counted in ticks of 1/TicksPerSec second, so that the           *)
(* truncation done by Duration::num_seconds is visible.                    *)
(***************************************************************************)
EXTENDS Integers, Sequences, FiniteSets, TLC

VARIABLES
    status,            \* app.status: the Status snapshot
    metadata,          \* app.metadata: the Metadata snapshot
    error_message,     \* app.error_message
    last_fetch,        \* app.last_fetch, in ticks
    now,               \* the wall clock read by Local::now(), in ticks
    collection_sel,    \* app.collection_tablestate.selected()
    profile_sel,       \* app.profile_tablestate.selected()
    current_view,      \* app.current_view
    current_profile,   \* app.current_profile
    should_quit,       \* app.should_quit
    frame,             \* what the last render drew
    pc,                \* position of the control loop
    ev                 \* the step taken last and its inputs

vars == <<status, metadata, error_message, last_fetch, now, collection_sel,
          profile_sel, current_view, current_profile, should_quit, frame, pc, ev>>

----------------------------------------------------------------------------
(* Bounds of the model *)

TicksPerSec == 2
FetchInterval == 1
MaxNow == 9
MaxWait == 1
MaxCall == 1
NumProfiles == 2
MaxNodes == 7

----------------------------------------------------------------------------
(* Option values *)

None == <<>>
Some(x) == <<x>>
IsSome(o) == Len(o) = 1
Unwrap(o) == o[1]

RECURSIVE ConcatAll(_)
ConcatAll(ss) == IF ss = <<>> THEN <<>> ELSE Head(ss) \o ConcatAll(Tail(ss))

RECURSIVE SumAll(_)
SumAll(ns) == IF ns = <<>> THEN 0 ELSE Head(ns) + SumAll(Tail(ns))

----------------------------------------------------------------------------
(* models.rs: the snapshot types.  Only the fields that decide a row or   *)
(* the detail pane are kept; the counters are carried as one field.        *)

Task(name) == [name |-> name, min_ts |-> None, todo |-> 0]

Queue(name, tasks) == [name |-> name, tasks |-> tasks]

Batch(name, queues) == [name |-> name, queues |-> queues]

Links(ui) == [ui |-> ui]

Collection(collection_id, foreign_id, label, links) ==
    [collection_id |-> collection_id, foreign_id |-> foreign_id,
     label |-> label, links |-> links]

StatusResult(name, batches, collection) ==
    [name |-> name, batches |-> batches, collection |-> collection,
     min_ts |-> None, todo |-> 0]

Status(results) == [results |-> results, total |-> Len(results)]

StatusDefault == Status(<<>>)

Metadata(st, title) == [status |-> st, maintenance |-> FALSE, title |-> title]

MetadataDefault == Metadata("", None)

----------------------------------------------------------------------------
(* Snapshots the backend can answer with.  A shape gives the hierarchy:   *)
(* a sequence of results, each [col, batches], a batch a sequence of       *)
(* queues, a queue its number of tasks.  Every entity is named after its   *)
(* path, so that a row can be traced back to the entity it was made from.  *)

Path(prefix, ns) ==
    LET RECURSIVE Dots(_)
        Dots(s) == IF Len(s) = 1 THEN ToString(s[1])
                   ELSE ToString(Head(s)) \o "." \o Dots(Tail(s))
    IN prefix \o Dots(ns)

MkQueue(r, b, q, n) ==
    Queue(Path("q", <<r, b, q>>), [t \in 1..n |-> Task(Path("t", <<r, b, q, t>>))])

MkBatch(r, b, qs) ==
    Batch(Path("b", <<r, b>>), [q \in 1..Len(qs) |-> MkQueue(r, b, q, qs[q])])

MkResult(r, shape) ==
    StatusResult(Path("r", <<r>>),
                 [b \in 1..Len(shape.batches) |-> MkBatch(r, b, shape.batches[b])],
                 IF shape.col
                 THEN Some(Collection(Path("id", <<r>>), Path("f", <<r>>),
                                      Path("c", <<r>>), Links(Path("ui", <<r>>))))
                 ELSE None)

MkStatus(shape) == Status([r \in 1..Len(shape) |-> MkResult(r, shape[r])])

\* the sequences of positive numbers that add up to n
RECURSIVE Comp(_)
Comp(n) == IF n = 0 THEN {<<>>}
           ELSE UNION {{<<k>> \o c : c \in Comp(n - k)} : k \in 1..n}

\* the sequences of queues with n nodes in all: a queue with t tasks has 1 + t
QueueSeqs(n) == {[i \in 1..Len(c) |-> c[i] - 1] : c \in Comp(n)}

RECURSIVE BatchSeqs(_)
BatchSeqs(n) ==
    IF n = 0 THEN {<<>>}
    ELSE UNION {{<<qs>> \o rest : qs \in QueueSeqs(k - 1), rest \in BatchSeqs(n - k)}
                : k \in 1..n}

RECURSIVE ResultSeqs(_)
ResultSeqs(n) ==
    IF n = 0 THEN {<<>>}
    ELSE UNION {{<<[col |-> c, batches |-> bs]>> \o rest :
                    c \in BOOLEAN, bs \in BatchSeqs(k - 1), rest \in ResultSeqs(n - k)}
                : k \in 1..n}

\* every snapshot with at most MaxNodes results, batches, queues and tasks
AllStatuses == {MkStatus(s) : s \in UNION {ResultSeqs(n) : n \in 0..MaxNodes}}

\* models.rs test_deserialization_no_collection: one result, no collection
ScenarioA == MkStatus(<<[col |-> FALSE, batches |-> <<>>]>>)

\* one result with a collection, 1 batch -> 1 queue -> 2 tasks
ScenarioB == MkStatus(<<[col |-> TRUE, batches |-> <<<<2>>>>]>>)

\* two results, the first with tasks in two queues of one batch
ScenarioTwo == MkStatus(<<[col |-> TRUE, batches |-> <<<<1, 1>>>>],
                          [col |-> FALSE, batches |-> <<>>]>>)

\* what fetch_status can return on success
Snapshots == {StatusDefault, ScenarioA, ScenarioB, ScenarioTwo}

----------------------------------------------------------------------------
(* ui.rs render, lines 79-133: the table rows *)

\* Option<String>::unwrap_or("-")
OrDash(o) == IF IsSome(o) THEN Unwrap(o) ELSE "-"

\* lines 83-109: the bold row of a result
CollectionRow(result) ==
    [bold |-> TRUE,
     id |-> IF IsSome(result.collection)
            THEN Unwrap(result.collection).collection_id ELSE "-",
     foreign_id |-> IF IsSome(result.collection)
                    THEN Unwrap(result.collection).foreign_id ELSE "-",
     label |-> IF IsSome(result.collection)
               THEN Unwrap(result.collection).label ELSE result.name,
     start |-> OrDash(result.min_ts)]

\* lines 115-129: the row of a task, under the name of its batch
TaskRow(batch, task) ==
    [bold |-> FALSE, id |-> "", foreign_id |-> batch.name,
     label |-> "  " \o task.name, start |-> OrDash(task.min_ts)]

\* the loop over the queues stopping after the first queue of each batch
TaskRowsFirstQueue(result) ==
    ConcatAll([b \in 1..Len(result.batches) |->
        IF result.batches[b].queues = <<>> THEN <<>>
        ELSE [t \in 1..Len(result.batches[b].queues[1].tasks) |->
                TaskRow(result.batches[b], result.batches[b].queues[1].tasks[t])]])

\* lines 112-132: the loops over batches, queues and tasks of one result
TaskRows(result) ==
    ConcatAll([b \in 1..Len(result.batches) |->
        ConcatAll([q \in 1..Len(result.batches[b].queues) |->
            [t \in 1..Len(result.batches[b].queues[q].tasks) |->
                TaskRow(result.batches[b], result.batches[b].queues[q].tasks[t])]])])

\* the collection row pushed after the task rows of its result
FlattenRowsTasksFirst(st) ==
    ConcatAll([r \in 1..Len(st.results) |->
        TaskRows(st.results[r]) \o <<CollectionRow(st.results[r])>>])

\* lines 79-133: rows.push in the loop over the results
FlattenRows(st) ==
    ConcatAll([r \in 1..Len(st.results) |->
        <<CollectionRow(st.results[r])>> \o TaskRows(st.results[r])])

\* a table that leaves a selection past the end where it is
TableRenderKeep(n_rows, selected) == IF n_rows = 0 THEN None ELSE selected

\* line 167: Table's stateful render keeps the selection inside the rows:
\* an index past the end becomes the last row, no rows means no selection
\* (the table's area is taken to be non-empty: an empty area draws nothing
\* and leaves the state alone)
TableRender(n_rows, selected) ==
    IF n_rows = 0 THEN None
    ELSE IF IsSome(selected) /\ Unwrap(selected) >= n_rows THEN Some(n_rows - 1)
    ELSE selected

\* lines 182-186: the task rows skipped for one result
SkipTaskRows(result) ==
    SumAll([b \in 1..Len(result.batches) |->
        SumAll([q \in 1..Len(result.batches[b].queues) |->
            Len(result.batches[b].queues[q].tasks)])])

\* lines 171-187: the result the selected row resolves to, as Some(its
\* 0-based position in status.results), or None when the loop ends without one
RECURSIVE ResolveFrom(_, _, _, _)
ResolveFrom(results, r, current_row, index) ==
    IF r > Len(results) THEN None
    ELSE IF current_row = index THEN Some(r - 1)
    ELSE ResolveFrom(results, r + 1,
                     current_row + 1 + SkipTaskRows(results[r]), index)

SelectedResult(st, index) == ResolveFrom(st.results, 1, 0, index)

\* the pane's title falling back to the name of the result
DetailPaneNameTitle(result) ==
    [title |-> IF IsSome(result.collection)
               THEN "Collection " \o Unwrap(result.collection).collection_id
                    \o " <" \o Unwrap(result.collection).label \o ">"
               ELSE result.name,
     url |-> IF IsSome(result.collection)
             THEN Unwrap(result.collection).links.ui ELSE "N/A"]

\* lines 189-217: the detail pane of a result
DetailPane(result) ==
    [title |-> IF IsSome(result.collection)
               THEN "Collection " \o Unwrap(result.collection).collection_id
                    \o " <" \o Unwrap(result.collection).label \o ">"
               ELSE "Details",
     url |-> IF IsSome(result.collection)
             THEN Unwrap(result.collection).links.ui ELSE "N/A"]

\* lines 169-218: the pane drawn for the selection, None when nothing is drawn
Detail(st, selected) ==
    IF ~IsSome(selected) THEN None
    ELSE LET res == SelectedResult(st, Unwrap(selected))
         IN IF IsSome(res)
            THEN Some([result_index |-> Unwrap(res)]
                      @@ DetailPane(st.results[Unwrap(res) + 1]))
            ELSE None

----------------------------------------------------------------------------
(* The application state as one value, and the methods of App that update *)
(* and render call.  *)

AppState ==
    [status |-> status, metadata |-> metadata, error_message |-> error_message,
     last_fetch |-> last_fetch, collection_sel |-> collection_sel,
     profile_sel |-> profile_sel, current_view |-> current_view,
     current_profile |-> current_profile, should_quit |-> should_quit]

\* config.profiles: each profile knows its position in the list
Profiles == [i \in 1..NumProfiles |-> [name |-> Path("p", <<i>>), index |-> i - 1]]

\* the number of rows of the main table
RowCount(a) == Len(FlattenRows(a.status))

\* App::quit
Quit(a) == [a EXCEPT !.should_quit = TRUE]

\* App::show_profile_selector
ShowProfileSelector(a) == a.current_view = "ProfileSwitcher"

\* the last_fetch that makes the next tick due
ForceRefetch(t) == t - (FetchInterval + 1) * TicksPerSec

\* committing a profile: the snapshots are dropped, the main cursor is reset
\* and the throttle is rewound
SetProfile(a, index, t) ==
    [a EXCEPT !.current_profile = index,
              !.status = StatusDefault,
              !.metadata = MetadataDefault,
              !.collection_sel = None,
              !.last_fetch = ForceRefetch(t)]

\* App::toggle_profile_selector: Hidden -> Visible; Visible -> Hidden, which
\* commits the profile under the switcher's cursor
ToggleProfileSelector(a, t) ==
    IF a.current_view = "Main"
    THEN [a EXCEPT !.current_view = "ProfileSwitcher"]
    ELSE LET hidden == [a EXCEPT !.current_view = "Main"]
         IN IF IsSome(a.profile_sel)
            THEN SetProfile(hidden, Unwrap(a.profile_sel), t)
            ELSE hidden

\* a cursor moved up by one in a list of n rows, stopping at the first row
CursorUp(sel, n) ==
    IF n = 0 THEN None
    ELSE IF ~IsSome(sel) THEN Some(0)
    ELSE IF Unwrap(sel) = 0 THEN Some(0)
    ELSE Some(Unwrap(sel) - 1)

\* a cursor moved down by one in a list of n rows, stopping at the last row
CursorDown(sel, n) ==
    IF n = 0 THEN None
    ELSE IF ~IsSome(sel) THEN Some(0)
    ELSE IF Unwrap(sel) >= n - 1 THEN Some(n - 1)
    ELSE Some(Unwrap(sel) + 1)

\* App::collection_up, App::collection_down
CollectionUp(a) == [a EXCEPT !.collection_sel = CursorUp(a.collection_sel, RowCount(a))]

CollectionDown(a) == [a EXCEPT !.collection_sel = CursorDown(a.collection_sel, RowCount(a))]

\* App::profile_up, App::profile_down
ProfileUp(a) == [a EXCEPT !.profile_sel = CursorUp(a.profile_sel, Len(Profiles))]

ProfileDown(a) == [a EXCEPT !.profile_sel = CursorDown(a.profile_sel, Len(Profiles))]

\* the outcome of a call to the backend: Ok(val) or Err(err)
Ok(v) == [ok |-> TRUE, val |-> v, err |-> ""]
Err(e) == [ok |-> FALSE, val |-> <<>>, err |-> e]

\* App::update_status: a fetched snapshot replaces the held one, a failure
\* leaves it
UpdateStatus(a, res) == IF res.ok THEN [a EXCEPT !.status = res.val] ELSE a

\* App::update_metadata
UpdateMetadata(a, res) == IF res.ok THEN [a EXCEPT !.metadata = res.val] ELSE a

----------------------------------------------------------------------------
(* update.rs *)

KeyCodes == {"Esc", "q", "c", "C", "p", "Up", "k", "Down", "j", "Enter", "x"}

KeyEvents ==
    {[code |-> c, modifiers |-> "NONE"] : c \in KeyCodes}
    \cup {[code |-> c, modifiers |-> m] :
            c \in {"c", "C"}, m \in {"CONTROL", "SHIFT", "CONTROL|SHIFT"}}

\* the 'c' arm without its test of the modifiers
CtrlCAnyModifier(a, key) == Quit(a)

\* lines 9-13: 'c' or 'C' quits with the Control modifier and nothing else
CtrlC(a, key) == IF key.modifiers = "CONTROL" THEN Quit(a) ELSE a

\* Up handled by the arm of Down when the switcher is hidden
MoveUpAsDown(a) == IF ShowProfileSelector(a) THEN ProfileUp(a) ELSE CollectionDown(a)

\* the down arm moving the main selection as well while the switcher shows
MoveDownBoth(a) ==
    IF ShowProfileSelector(a) THEN CollectionDown(ProfileDown(a)) ELSE CollectionDown(a)

\* lines 15-18 and 19-22: the arrow keys go to the list that is shown
MoveUp(a) == IF ShowProfileSelector(a) THEN ProfileUp(a) ELSE CollectionUp(a)

MoveDown(a) == IF ShowProfileSelector(a) THEN ProfileDown(a) ELSE CollectionDown(a)

\* the Enter arm without its test of the view
UpdateEnterUnguarded(a, key, t) ==
    CASE key.code \in {"Esc", "q"} -> Quit(a)
      [] key.code \in {"c", "C"} -> CtrlC(a, key)
      [] key.code \in {"p", "Enter"} -> ToggleProfileSelector(a, t)
      [] key.code \in {"Up", "k"} -> MoveUp(a)
      [] key.code \in {"Down", "j"} -> MoveDown(a)
      [] OTHER -> a

\* the Enter arm left out, so that Enter falls to the catch-all arm
UpdateEnterIgnored(a, key, t) ==
    CASE key.code \in {"Esc", "q"} -> Quit(a)
      [] key.code \in {"c", "C"} -> CtrlC(a, key)
      [] key.code = "p" -> ToggleProfileSelector(a, t)
      [] key.code \in {"Up", "k"} -> MoveUp(a)
      [] key.code \in {"Down", "j"} -> MoveDown(a)
      [] OTHER -> a

\* lines 6-30: update(app, key_event), at time t
Update(a, key, t) ==
    CASE key.code \in {"Esc", "q"} -> Quit(a)
      [] key.code \in {"c", "C"} -> CtrlC(a, key)
      [] key.code = "p" -> ToggleProfileSelector(a, t)
      [] key.code \in {"Up", "k"} -> MoveUp(a)
      [] key.code \in {"Down", "j"} -> MoveDown(a)
      [] key.code = "Enter" ->
            IF a.current_view = "ProfileSwitcher" THEN ToggleProfileSelector(a, t) ELSE a
      [] OTHER -> a

\* Duration::num_seconds: the whole seconds of a duration, towards zero
\* (the clock of the model never runs backwards, so durations are >= 0 here)
NumSeconds(d) == IF d >= 0 THEN d \div TicksPerSec ELSE -((-d) \div TicksPerSec)

\* the throttle had it compared with >= : due already at the interval itself
IsDueAtInterval(t, last, interval) == NumSeconds(t - last) >= interval

\* lines 33-34: the throttle
IsDue(t, last, interval) == NumSeconds(t - last) > interval

\* the Ok arm leaving the message as it is instead of clearing it
SetErrorMessageKeep(a, res) ==
    IF res.ok THEN a ELSE [a EXCEPT !.error_message = res.err]

\* lines 35-38 and 39-42: the outcome of a call becomes the error message
SetErrorMessage(a, res) ==
    [a EXCEPT !.error_message = IF res.ok THEN "" ELSE res.err]

\* last_fetch taken from the time read at line 33, before the calls
StampAtStart(a, started, finished) == [a EXCEPT !.last_fetch = started]

\* line 43: the time read after the calls becomes last_fetch
StampLastFetch(a, started, finished) == [a EXCEPT !.last_fetch = finished]

\* a failed call storing the default snapshot (unwrap_or_default) instead of
\* leaving the held one
FetchBodyClearOnError(a, s_res, m_res, started, finished) ==
    LET s_val == IF s_res.ok THEN s_res.val ELSE StatusDefault
        m_val == IF m_res.ok THEN m_res.val ELSE MetadataDefault
        a1 == SetErrorMessage([a EXCEPT !.status = s_val], s_res)
        a2 == SetErrorMessage([a1 EXCEPT !.metadata = m_val], m_res)
    IN StampLastFetch(a2, started, finished)

\* the main cursor pulled into the rows of the new snapshot within the fetch
FetchBodyClampCursor(a, s_res, m_res, started, finished) ==
    LET a1 == SetErrorMessage(UpdateStatus(a, s_res), s_res)
        a2 == SetErrorMessage(UpdateMetadata(a1, m_res), m_res)
        a3 == [a2 EXCEPT !.collection_sel = TableRender(RowCount(a2), a.collection_sel)]
    IN StampLastFetch(a3, started, finished)

\* last_fetch stamped only when both calls succeeded
FetchBodyStampOnSuccess(a, s_res, m_res, started, finished) ==
    LET a1 == SetErrorMessage(UpdateStatus(a, s_res), s_res)
        a2 == SetErrorMessage(UpdateMetadata(a1, m_res), m_res)
    IN IF s_res.ok /\ m_res.ok THEN StampLastFetch(a2, started, finished) ELSE a2

\* a failed status call ending the tick before the metadata call
FetchBodyShortCircuit(a, s_res, m_res, started, finished) ==
    LET a1 == SetErrorMessage(UpdateStatus(a, s_res), s_res)
        a2 == SetErrorMessage(UpdateMetadata(a1, m_res), m_res)
    IN StampLastFetch(IF s_res.ok THEN a2 ELSE a1, started, finished)

\* lines 35-43: the body of a due tick that starts at `started`, whose calls
\* answer s_res and m_res and have returned at `finished`
FetchBody(a, s_res, m_res, started, finished) ==
    LET a1 == SetErrorMessage(UpdateStatus(a, s_res), s_res)
        a2 == SetErrorMessage(UpdateMetadata(a1, m_res), m_res)
    IN StampLastFetch(a2, started, finished)

----------------------------------------------------------------------------
(* ui.rs render, lines 38-280 *)

\* lines 264-270: the profile of the switcher's list that is current gets
\* selected
SelectCurrentProfile(a) ==
    IF \E i \in 1..Len(Profiles) : Profiles[i].index = a.current_profile
    THEN Some((CHOOSE i \in 1..Len(Profiles) :
                    Profiles[i].index = a.current_profile) - 1)
    ELSE a.profile_sel

\* lines 256-279: the popup, drawn over the frame when the switcher shows
RenderPopup(a) ==
    IF ShowProfileSelector(a)
    THEN [a EXCEPT !.profile_sel = TableRender(Len(Profiles), SelectCurrentProfile(a))]
    ELSE a

\* line 167: the main table is rendered with the application's table state
RenderTable(a) ==
    [a EXCEPT !.collection_sel = TableRender(RowCount(a), a.collection_sel)]

\* the application state after render(app, f)
Render(a) == RenderPopup(RenderTable(a))

\* what render(app, f) draws
Frame(a) ==
    LET a1 == RenderTable(a)
    IN [rows |-> FlattenRows(a.status),
        selected |-> a1.collection_sel,
        detail |-> Detail(a.status, a1.collection_sel),
        error |-> a.error_message,
        popup |-> ShowProfileSelector(a)]

----------------------------------------------------------------------------
(* The control loop: wait for a key or the tick timeout, handle the key,   *)
(* run the throttled fetch, render; it ends when should_quit is set.       *)

SetApp(a) ==
    /\ status' = a.status
    /\ metadata' = a.metadata
    /\ error_message' = a.error_message
    /\ last_fetch' = a.last_fetch
    /\ collection_sel' = a.collection_sel
    /\ profile_sel' = a.profile_sel
    /\ current_view' = a.current_view
    /\ current_profile' = a.current_profile
    /\ should_quit' = a.should_quit

NoKey == [code |-> "", modifiers |-> ""]
NoCall == Ok(<<>>)

\* the record of a step: the operation, its inputs, the state it started in,
\* whether the snapshot was replaced since the frame before, and the time at
\* which the latest fetch attempt ended (none yet, or a profile was committed
\* since), after the step and before it
Event(op, key, called, s_res, m_res) ==
    [op |-> op, key |-> key, called |-> called, s_res |-> s_res, m_res |-> m_res,
     started |-> now, pre |-> AppState,
     replaced |-> IF op = "fetch" THEN called /\ s_res.ok
                  ELSE IF op = "render" THEN ev.replaced ELSE FALSE,
     prev_attempt |-> ev.attempt,
     attempt |-> IF op = "fetch" /\ called THEN Some(now')
                 ELSE IF op = "key" /\ last_fetch' # last_fetch THEN None
                 ELSE ev.attempt]

\* what fetch_status and fetch_metadata can answer
StatusAnswers ==
    {Ok(s) : s \in Snapshots} \cup {Err("status: request failed"), Err("status: malformed snapshot")}

MetadataAnswers ==
    {Ok(Metadata("ok", Some("Aleph")))} \cup {Err("metadata: request failed")}

EmptyFrame ==
    [rows |-> <<>>, selected |-> None, detail |-> None, error |-> "", popup |-> FALSE]

InitEvent(op) ==
    [op |-> op, key |-> NoKey, called |-> FALSE, s_res |-> NoCall,
     m_res |-> NoCall, started |-> 0, pre |-> AppState,
     replaced |-> op = "replace", prev_attempt |-> None, attempt |-> None]

\* App::new but for the snapshot, the main cursor and last_fetch
InitApp ==
    /\ metadata = MetadataDefault
    /\ error_message = ""
    /\ profile_sel = None
    /\ current_view = "Main"
    /\ current_profile = 0
    /\ should_quit = FALSE
    /\ frame = EmptyFrame
    /\ now = 0

Init ==
    /\ InitApp
    /\ status = StatusDefault
    /\ collection_sel = None
    /\ last_fetch \in {0, ForceRefetch(0)}
    /\ pc = "input"
    /\ ev = InitEvent("init")

\* a key arrives after waiting d ticks and update handles it
KeyPress ==
    /\ pc = "input"
    /\ \E key \in KeyEvents, d \in 0..MaxWait :
        /\ now + d <= MaxNow
        /\ now' = now + d
        /\ LET a == Update(AppState, key, now + d)
           IN /\ SetApp(a)
              /\ pc' = IF a.should_quit THEN "done" ELSE "fetch"
        /\ ev' = Event("key", key, FALSE, NoCall, NoCall)
    /\ UNCHANGED frame

\* no key arrives within the tick interval
Timeout ==
    /\ pc = "input"
    /\ \E d \in 1..MaxWait :
        /\ now + d <= MaxNow
        /\ now' = now + d
    /\ pc' = "fetch"
    /\ ev' = Event("timeout", NoKey, FALSE, NoCall, NoCall)
    /\ UNCHANGED <<status, metadata, error_message, last_fetch, collection_sel,
                   profile_sel, current_view, current_profile, should_quit, frame>>

\* a tick that is not due clearing the message all the same
FetchNotDueClearsError ==
    /\ pc = "fetch"
    /\ ~IsDue(now, last_fetch, FetchInterval)
    /\ pc' = "render"
    /\ error_message' = ""
    /\ ev' = Event("fetch", NoKey, FALSE, NoCall, NoCall)
    /\ UNCHANGED <<status, metadata, last_fetch, collection_sel,
                   profile_sel, current_view, current_profile, should_quit, frame,
                   now>>

\* update.rs lines 32-45, fetch(app): the tick is not due and nothing is done
FetchNotDue ==
    /\ pc = "fetch"
    /\ ~IsDue(now, last_fetch, FetchInterval)
    /\ pc' = "render"
    /\ ev' = Event("fetch", NoKey, FALSE, NoCall, NoCall)
    /\ UNCHANGED <<status, metadata, error_message, last_fetch, collection_sel,
                   profile_sel, current_view, current_profile, should_quit, frame,
                   now>>

\* update.rs lines 32-45, fetch(app): the tick is due; the two calls answer
\* s_res and m_res and take d ticks together
FetchDue ==
    /\ pc = "fetch"
    /\ IsDue(now, last_fetch, FetchInterval)
    /\ \E s_res \in StatusAnswers, m_res \in MetadataAnswers, d \in 0..MaxCall :
        /\ now + d <= MaxNow
        /\ now' = now + d
        /\ SetApp(FetchBody(AppState, s_res, m_res, now, now + d))
        /\ ev' = Event("fetch", NoKey, TRUE, s_res, m_res)
    /\ pc' = "render"
    /\ UNCHANGED frame

\* ui.rs lines 38-280, render(app, f)
RenderFrame ==
    /\ pc = "render"
    /\ SetApp(Render(AppState))
    /\ frame' = Frame(AppState)
    /\ pc' = "input"
    /\ ev' = Event("render", NoKey, FALSE, NoCall, NoCall)
    /\ UNCHANGED now

Next == KeyPress \/ Timeout \/ FetchNotDue \/ FetchDue \/ RenderFrame

Spec == Init /\ [][Next]_vars

----------------------------------------------------------------------------
(* The view alone: any snapshot and any stored selection, rendered and     *)
(* navigated with the arrow keys.                                          *)

NavKeys == {[code |-> c, modifiers |-> "NONE"] : c \in {"Up", "k", "Down", "j"}}

InitView ==
    /\ InitApp
    /\ status \in AllStatuses
    /\ collection_sel \in {None} \cup {Some(i) : i \in 0..MaxNodes}
    /\ last_fetch = 0
    /\ pc = "render"
    /\ ev = InitEvent("replace")

\* an arrow key is handled and the frame is drawn again
Navigate ==
    /\ pc = "input"
    /\ \E key \in NavKeys :
        /\ SetApp(Update(AppState, key, now))
        /\ ev' = Event("key", key, FALSE, NoCall, NoCall)
    /\ pc' = "render"
    /\ UNCHANGED <<now, frame>>

NextView == RenderFrame \/ Navigate

SpecView == InitView /\ [][NextView]_vars

----------------------------------------------------------------------------
(* Properties of the throttled fetch *)

\* the ticks between last_fetch and the time a fetch step read the clock
Elapsed == ev.started - ev.pre.last_fetch

FetchStep == ev.op = "fetch"

DueStep == ev.op = "fetch" /\ ev.called

\* C1, as stated: a tick makes the two calls if and only if
\* now - last_fetch > fetch_interval
C1_FetchIffElapsedExceeds ==
    FetchStep => (ev.called <=> Elapsed > FetchInterval * TicksPerSec)

\* C1, amended: a tick makes the two calls if and only if the whole seconds of
\* now - last_fetch exceed fetch_interval, that is from fetch_interval + 1 s on;
\* not at fetch_interval exactly, and at fetch_interval + 1 s it does
C1_FetchIffWholeSecondsExceed ==
    FetchStep =>
        /\ ev.called <=> Elapsed >= (FetchInterval + 1) * TicksPerSec
        /\ Elapsed = FetchInterval * TicksPerSec => ~ev.called
        /\ Elapsed = (FetchInterval + 1) * TicksPerSec => ev.called

\* a tick less than a second past the interval, on which nothing was fetched
C1_Witness ==
    /\ FetchStep
    /\ ~ev.called
    /\ Elapsed > FetchInterval * TicksPerSec
    /\ Elapsed < (FetchInterval + 1) * TicksPerSec
    /\ status = ev.pre.status /\ last_fetch = ev.pre.last_fetch

\* C2: after a due tick last_fetch is the time at which both calls had
\* returned, whatever their outcomes
C2_LastFetchIsNowAfterCalls == DueStep => last_fetch = now

\* a due tick on which both calls failed and took time
C2_Witness ==
    /\ DueStep
    /\ ~ev.s_res.ok /\ ~ev.m_res.ok
    /\ now > ev.started
    /\ last_fetch = now

\* the last error met on a due tick: the metadata call's, else the status call's
LastError(s_res, m_res) ==
    IF ~m_res.ok THEN m_res.err ELSE IF ~s_res.ok THEN s_res.err ELSE ""

\* C3: after a due tick the error message is the last error met on that tick,
\* and it is empty only if neither call failed
C3_LastErrorShown ==
    DueStep =>
        /\ error_message = LastError(ev.s_res, ev.m_res)
        /\ error_message = "" => (ev.s_res.ok /\ ev.m_res.ok)

\* C4: a due tick on which both calls succeed leaves the error message empty,
\* whatever it was before
C4_SuccessClearsError ==
    (DueStep /\ ev.s_res.ok /\ ev.m_res.ok) => error_message = ""

\* both calls succeeded on a tick that started with an error shown
C4_Witness ==
    /\ DueStep /\ ev.s_res.ok /\ ev.m_res.ok
    /\ ev.pre.error_message # ""
    /\ error_message = ""

\* C5: a failed call on a due tick does not end the loop and leaves the
\* snapshot it should have replaced; but for error_message and last_fetch the
\* state is as before when both fail
C5_FailureKeepsSnapshot ==
    DueStep =>
        /\ ~should_quit /\ pc = "render"
        /\ ~ev.s_res.ok => status = ev.pre.status
        /\ ~ev.m_res.ok => metadata = ev.pre.metadata
        /\ (~ev.s_res.ok /\ ~ev.m_res.ok) =>
              AppState = [ev.pre EXCEPT !.error_message = ev.m_res.err,
                                        !.last_fetch = now]

\* the status call failed while a fetched snapshot was held
C5_Witness ==
    /\ DueStep /\ ~ev.s_res.ok /\ ev.m_res.ok
    /\ ev.pre.status # StatusDefault
    /\ status = ev.pre.status
    /\ ~should_quit

----------------------------------------------------------------------------
(* Properties of the rows, the detail pane and the main cursor *)

Rendered == ev.op = "render"

\* the tasks of a snapshot, each by its position <<result, batch, queue, task>>
TaskCoords(st) ==
    UNION {UNION {UNION {{<<r, b, q, t>> :
                            t \in 1..Len(st.results[r].batches[b].queues[q].tasks)}
                         : q \in 1..Len(st.results[r].batches[b].queues)}
                  : b \in 1..Len(st.results[r].batches)}
           : r \in 1..Len(st.results)}

ResultCoords(st) == {<<r>> : r \in 1..Len(st.results)}

TasksOf(st, r) == {e \in TaskCoords(st) : e[1] = r}

\* the label that tells the row of a result or of a task from every other row
EntityLabel(st, e) ==
    IF Len(e) = 1
    THEN IF IsSome(st.results[e[1]].collection)
         THEN Unwrap(st.results[e[1]].collection).label
         ELSE st.results[e[1]].name
    ELSE "  " \o st.results[e[1]].batches[e[2]].queues[e[3]].tasks[e[4]].name

\* fetch order: a result before its tasks, then batch, queue and task order
RECURSIVE LexLess(_, _)
LexLess(e1, e2) ==
    IF e1 = <<>> THEN e2 # <<>>
    ELSE IF e2 = <<>> THEN FALSE
    ELSE \/ Head(e1) < Head(e2)
         \/ Head(e1) = Head(e2) /\ LexLess(Tail(e1), Tail(e2))

Positions(rows, label) == {i \in 1..Len(rows) : rows[i].label = label}

Pos(rows, label) == CHOOSE i \in 1..Len(rows) : rows[i].label = label

\* C6: the frame has one row per result and one per task of any batch and
\* queue of any result
C6_RowCount ==
    Rendered =>
        Len(frame.rows) = Len(status.results) + Cardinality(TaskCoords(status))

\* two results, in the first a batch whose two queues both hold tasks
C6_Witness ==
    /\ Rendered
    /\ Len(status.results) = 2
    /\ \E e1, e2 \in TasksOf(status, 1) : e1[2] = e2[2] /\ e1[3] # e2[3]
    /\ Len(frame.rows) = 2 + Cardinality(TaskCoords(status))

\* C7: every result and every task has its one row; the rows are in fetch
\* order, so all rows of a result come before all rows of a later result;
\* the task rows of a result follow its collection row at once
C7_RowOrder ==
    Rendered =>
        LET rows == frame.rows
            all == ResultCoords(status) \cup TaskCoords(status)
            at(e) == Pos(rows, EntityLabel(status, e))
        IN /\ \A e \in all : Cardinality(Positions(rows, EntityLabel(status, e))) = 1
           /\ \A e1, e2 \in all : LexLess(e1, e2) => at(e1) < at(e2)
           /\ \A e \in all : rows[at(e)].bold <=> Len(e) = 1
           /\ \A e \in TaskCoords(status) :
                 at(e) - at(<<e[1]>>) \in 1..Cardinality(TasksOf(status, e[1]))

\* a first result with tasks in two queues, a second result after it
C7_Witness ==
    /\ Rendered
    /\ Len(status.results) = 2
    /\ \E e1, e2 \in TasksOf(status, 1) : e1[3] # e2[3]
    /\ Pos(frame.rows, EntityLabel(status, <<2>>)) = Len(frame.rows)
    /\ Len(frame.rows) >= 4

\* the 0-based row of the collection row of result r
RowStart(st, r) == (r - 1) + Cardinality({e \in TaskCoords(st) : e[1] < r})

\* the 0-based result that owns row `index`
Owner(st, index) ==
    (CHOOSE r \in 1..Len(st.results) :
        /\ RowStart(st, r) <= index
        /\ index <= RowStart(st, r) + Cardinality(TasksOf(st, r))) - 1

\* C8: with a task row selected, the detail pane is that of the result that
\* owns the task; in scenario B rows 1 and 2 both resolve to result 0
C8_TaskRowResolvesToOwner ==
    (Rendered /\ IsSome(frame.selected)
        /\ ~frame.rows[Unwrap(frame.selected) + 1].bold) =>
        /\ IsSome(frame.detail)
        /\ Unwrap(frame.detail).result_index = Owner(status, Unwrap(frame.selected))

\* C9, as stated: after a snapshot replacement the main selection is inside
\* the rows, and it is none if and only if there are no rows
C9_SelectionInRangeNoneIffEmpty ==
    (Rendered /\ ev.replaced) =>
        /\ collection_sel = None <=> RowCount(AppState) = 0
        /\ IsSome(collection_sel) => Unwrap(collection_sel) \in 0..(RowCount(AppState) - 1)

\* C9, amended: in the frame drawn after a snapshot replacement the main
\* selection is none or inside the rows; it is none when there are no rows and
\* stays none when it was none before; an index past the end becomes the last
\* row and any other index is kept
C9_SelectionClampedOnRender ==
    (Rendered /\ ev.replaced) =>
        LET n == RowCount(AppState)
            old == ev.pre.collection_sel
        IN /\ IsSome(collection_sel) => Unwrap(collection_sel) \in 0..(n - 1)
           /\ n = 0 => collection_sel = None
           /\ old = None => collection_sel = None
           /\ (n > 0 /\ IsSome(old)) =>
                collection_sel = Some(IF Unwrap(old) >= n THEN n - 1 ELSE Unwrap(old))
           /\ frame.selected = collection_sel

\* the new snapshot has rows, but fewer than the stored index
C9_Witness ==
    /\ Rendered /\ ev.replaced
    /\ IsSome(ev.pre.collection_sel)
    /\ RowCount(AppState) > 0
    /\ Unwrap(ev.pre.collection_sel) >= RowCount(AppState)
    /\ collection_sel = Some(RowCount(AppState) - 1)

\* an arrow key handled while the switcher was hidden
MainMove(codes) ==
    /\ ev.op = "key"
    /\ ev.key.code \in codes
    /\ ev.pre.current_view = "Main"

\* C10: with the switcher hidden, Up/k and Down/j keep the main selection
\* inside the rows and move it by one at most; Up at row 0 and Down at the
\* last row leave it where it is
C10_MoveStaysInRows ==
    MainMove({"Up", "k", "Down", "j"}) =>
        LET n == RowCount(AppState)
            old == ev.pre.collection_sel
        IN /\ IsSome(collection_sel) => Unwrap(collection_sel) \in 0..(n - 1)
           /\ IsSome(old) =>
                /\ IsSome(collection_sel)
                /\ Unwrap(collection_sel) - Unwrap(old) \in
                      IF ev.key.code \in {"Up", "k"} THEN {-1, 0} ELSE {0, 1}
           /\ (ev.key.code \in {"Up", "k"} /\ old = Some(0)) => collection_sel = Some(0)
           /\ (ev.key.code \in {"Down", "j"} /\ old = Some(n - 1)) =>
                collection_sel = Some(n - 1)
           /\ status = ev.pre.status

\* Down pressed on the last of several rows
C10_Witness ==
    /\ MainMove({"Down", "j"})
    /\ RowCount(AppState) >= 3
    /\ ev.pre.collection_sel = Some(RowCount(AppState) - 1)
    /\ collection_sel = Some(RowCount(AppState) - 1)

----------------------------------------------------------------------------
(* Properties of the profile switcher and of the keys *)

KeyStep(codes) == ev.op = "key" /\ ev.key.code \in codes

Visible(a) == a.current_view = "ProfileSwitcher"

\* C11: the switcher is Hidden (Main) or Visible (ProfileSwitcher); 'p' goes
\* from either to the other, Enter goes from Visible to Hidden and changes
\* nothing while Hidden, and no other key or step changes the view
C11_SwitcherTwoStates ==
    /\ current_view \in {"Main", "ProfileSwitcher"}
    /\ KeyStep({"p"}) => Visible(AppState) = ~Visible(ev.pre)
    /\ (KeyStep({"Enter"}) /\ Visible(ev.pre)) => ~Visible(AppState)
    /\ (KeyStep({"Enter"}) /\ ~Visible(ev.pre)) => AppState = ev.pre
    /\ ~KeyStep({"p", "Enter"}) => current_view = ev.pre.current_view

\* Enter has just hidden a visible switcher
C11_Witness ==
    /\ KeyStep({"Enter"})
    /\ Visible(ev.pre)
    /\ ~Visible(AppState)

\* C12: Enter while the switcher is Visible makes the profile under the
\* switcher's cursor the current one, drops the Status and Metadata snapshots,
\* resets the main cursor (to none, whatever row was selected) and rewinds
\* last_fetch so that the fetch of this very loop turn is due
C12_ConfirmCommitsProfile ==
    (KeyStep({"Enter"}) /\ Visible(ev.pre)) =>
        /\ IsSome(ev.pre.profile_sel)
        /\ current_profile = Unwrap(ev.pre.profile_sel)
        /\ status = StatusDefault
        /\ metadata = MetadataDefault
        /\ collection_sel = None
        /\ pc = "fetch"
        /\ IsDue(now, last_fetch, FetchInterval)

\* Enter in the switcher with row 2 of 3 selected and the throttle not due
C12_Witness ==
    /\ KeyStep({"Enter"}) /\ Visible(ev.pre)
    /\ RowCount(ev.pre) = 3
    /\ ev.pre.collection_sel = Some(2)
    /\ ~IsDue(now, ev.pre.last_fetch, FetchInterval)
    /\ collection_sel = None
    /\ status = StatusDefault

----------------------------------------------------------------------------
(* Frame properties of the fetch *)

\* C13: a fetch tick, due or not, leaves the main cursor, the switcher's
\* cursor, the view and the current profile as they were (and never quits)
C13_FetchLeavesCursors ==
    FetchStep =>
        /\ collection_sel = ev.pre.collection_sel
        /\ profile_sel = ev.pre.profile_sel
        /\ current_view = ev.pre.current_view
        /\ current_profile = ev.pre.current_profile
        /\ should_quit = ev.pre.should_quit

\* a due tick replaced the snapshot by one with fewer rows than the index
\* selected, and the index is as before
C13_Witness ==
    /\ DueStep /\ ev.s_res.ok
    /\ status # ev.pre.status
    /\ IsSome(collection_sel)
    /\ Unwrap(collection_sel) >= RowCount(AppState)
    /\ collection_sel = ev.pre.collection_sel

----------------------------------------------------------------------------
(* Properties of the quit keys *)

\* C14: 'q', Esc and 'c'/'C' with exactly the Control modifier quit, in any
\* view; 'c'/'C' without the Control modifier neither quits nor changes
\* anything
C14_QuitKeys ==
    /\ KeyStep({"q", "Esc"}) => should_quit
    /\ (KeyStep({"c", "C"}) /\ ev.key.modifiers = "CONTROL") => should_quit
    /\ (KeyStep({"c", "C"}) /\ ev.key.modifiers \in {"NONE", "SHIFT"}) =>
            ~should_quit /\ AppState = ev.pre
    /\ should_quit <=> pc = "done"

\* Ctrl-C pressed while the switcher was visible
C14_Witness ==
    /\ KeyStep({"c", "C"})
    /\ ev.key.modifiers = "CONTROL"
    /\ Visible(ev.pre)
    /\ should_quit

----------------------------------------------------------------------------
(* Properties of the retry rate *)

\* C15: with no profile committed in between, a fetch attempt starts more
\* than fetch_interval seconds after the attempt before it ended, whether
\* that one failed or not; a tick sooner than that makes no call
C15_AttemptsSeparated ==
    (FetchStep /\ IsSome(ev.prev_attempt)) =>
        LET gap == ev.started - Unwrap(ev.prev_attempt)
        IN /\ ev.called => gap > FetchInterval * TicksPerSec
           /\ gap <= FetchInterval * TicksPerSec => ~ev.called

\* an attempt that fails, made after an attempt that failed
C15_Witness ==
    /\ DueStep
    /\ IsSome(ev.prev_attempt)
    /\ ev.pre.error_message # ""
    /\ ~ev.s_res.ok /\ ~ev.m_res.ok
    /\ ev.started - Unwrap(ev.prev_attempt) > FetchInterval * TicksPerSec

----------------------------------------------------------------------------
(* Properties of the two cursors *)

\* C16: an up/down key while the switcher is Visible moves the profile cursor
\* and leaves the main selection (and everything else) as it was; while the
\* switcher is Hidden it moves the main selection and leaves the profile
\* cursor (and everything else) as it was
C16_CursorsIndependent ==
    KeyStep({"Up", "k", "Down", "j"}) =>
        LET up == ev.key.code \in {"Up", "k"}
        IN IF Visible(ev.pre)
           THEN /\ AppState = [ev.pre EXCEPT !.profile_sel = profile_sel]
                /\ profile_sel = IF up THEN CursorUp(ev.pre.profile_sel, Len(Profiles))
                                       ELSE CursorDown(ev.pre.profile_sel, Len(Profiles))
           ELSE /\ AppState = [ev.pre EXCEPT !.collection_sel = collection_sel]
                /\ collection_sel = IF up THEN CursorUp(ev.pre.collection_sel, RowCount(ev.pre))
                                          ELSE CursorDown(ev.pre.collection_sel, RowCount(ev.pre))

\* a down key in the switcher moves its cursor while the main selection,
\* which has a row below it to go to, stays
C16_Witness ==
    /\ KeyStep({"Down", "j"})
    /\ Visible(ev.pre)
    /\ profile_sel # ev.pre.profile_sel
    /\ IsSome(collection_sel)
    /\ Unwrap(collection_sel) + 1 < RowCount(ev.pre)
    /\ collection_sel = ev.pre.collection_sel

----------------------------------------------------------------------------
(* Properties of the two calls of a due tick *)

\* C17: a due tick makes both calls, status first and metadata second: each
\* answer that is Ok replaces what it fetched whatever the other answer is,
\* each failure leaves what it did not fetch, and the message left is the
\* one of the call made last
C17_BothCallsMade ==
    DueStep =>
        /\ status = IF ev.s_res.ok THEN ev.s_res.val ELSE ev.pre.status
        /\ metadata = IF ev.m_res.ok THEN ev.m_res.val ELSE ev.pre.metadata
        /\ error_message = IF ev.m_res.ok THEN "" ELSE ev.m_res.err

\* the status call fails and the metadata call of the same tick replaces
\* the metadata held
C17_Witness ==
    /\ DueStep
    /\ ~ev.s_res.ok
    /\ ev.m_res.ok
    /\ metadata = ev.m_res.val
    /\ metadata # ev.pre.metadata

----------------------------------------------------------------------------
(* Properties of rendering as a reader of the state *)

\* C18: rendering a frame changes neither the main selection index, nor the
\* profile switcher's cursor, nor the current profile
C18_RenderReadOnly ==
    Rendered =>
        /\ collection_sel = ev.pre.collection_sel
        /\ profile_sel = ev.pre.profile_sel
        /\ current_profile = ev.pre.current_profile

----------------------------------------------------------------------------
(* Properties of a result without a collection *)

\* a snapshot of exactly one result, without collection and without batches
OneBareResult(st) ==
    /\ Len(st.results) = 1
    /\ ~IsSome(st.results[1].collection)
    /\ st.results[1].batches = <<>>

\* C19, as stated: for a snapshot of one result without collection and
\* without batches there is exactly one collection row, and with that row
\* selected the label of the detail pane is the name of the result and its
\* URL is "N/A"
C19_DetailLabelIsName ==
    (Rendered /\ OneBareResult(status) /\ frame.selected = Some(0)) =>
        /\ Len(frame.rows) = 1 /\ frame.rows[1].bold
        /\ IsSome(frame.detail)
        /\ Unwrap(frame.detail).result_index = 0
        /\ Unwrap(frame.detail).title = status.results[1].name
        /\ Unwrap(frame.detail).url = "N/A"

\* C19, amended: there is exactly one collection row, whose label is the name
\* of the result and whose ids are "-"; with that row selected the detail
\* pane is that of result 0, titled "Details", with the URL "N/A"
C19_RowLabelIsNameDetailIsPlain ==
    (Rendered /\ OneBareResult(status)) =>
        /\ Len(frame.rows) = 1 /\ frame.rows[1].bold
        /\ frame.rows[1].label = status.results[1].name
        /\ frame.rows[1].id = "-" /\ frame.rows[1].foreign_id = "-"
        /\ frame.selected = Some(0) =>
              frame.detail = Some([result_index |-> 0, title |-> "Details",
                                   url |-> "N/A"])

\* the frame of scenario A with its only row selected
C19_Witness ==
    /\ Rendered
    /\ status = ScenarioA
    /\ OneBareResult(status)
    /\ frame.selected = Some(0)
    /\ IsSome(frame.detail)
    /\ frame.rows[1].label = "r1"

----------------------------------------------------------------------------
(* Properties of a tick that is not due *)

\* C20: a tick with now - last_fetch <= fetch_interval makes no call, and a
\* tick that makes no call leaves the whole state as it was: Status,
\* Metadata, error message, last_fetch, both cursors and the current profile;
\* the message is changed by due ticks only and every frame shows it
C20_NotDueLeavesState ==
    /\ (FetchStep /\ Elapsed <= FetchInterval * TicksPerSec) => ~ev.called
    /\ (FetchStep /\ ~ev.called) => AppState = ev.pre /\ now = ev.started
    /\ ~DueStep => error_message = ev.pre.error_message
    /\ Rendered => frame.error = error_message

\* a tick that is not due, with the message of the last due tick still held
C20_Witness ==
    /\ FetchStep /\ ~ev.called
    /\ Elapsed <= FetchInterval * TicksPerSec
    /\ IsSome(ev.attempt)
    /\ ev.pre.error_message # ""
    /\ error_message = ev.pre.error_message
    /\ frame.error = error_message

====
